---- MODULE Spec2Model ----
(***************************************************************************)
(* Delta joins over three relations, Order -> User -> Province, as built   *)
(* by src/src/delta_join.rs on differential dataflow.                      *)
(*                                                                         *)
(* A collection is a consolidated set of updates [d, t, r]: data, logical  *)
(* time (u64) and signed multiplicity, with one update per (d, t) and      *)
(* r # 0.  The state machine is the dataflow at run time: the three input  *)
(* collections and their frontier, the stash of every half_join operator,  *)
(* and what each delta path has emitted so far.                            *)
(***************************************************************************)
EXTENDS Integers, FiniteSets, Sequences, TLC

\* Bounds of the model: the last epoch of the generated feed and the number
\* of change events the driver sends.
MaxTime == 1
MaxEvents == 4

----------------------------------------------------------------------------
\* Records (src/src/delta_join.rs:21-41)

Order(oid, price, uid) == [oid |-> oid, price |-> price, uid |-> uid]
User(uid, pid) == [uid |-> uid, pid |-> pid]
Province(pid, name) == [pid |-> pid, name |-> name]

\* The records the feeds draw from.
Orders == {Order(100, 50, 10), Order(101, 20, 10)}
Users == {User(10, 1), User(10, 2), User(11, 1)}
Provinces == {Province(1, "Beijing"), Province(2, "Shanghai")}

Update(d, t, r) == [d |-> d, t |-> t, r |-> r]

Max(a, b) == IF a >= b THEN a ELSE b
Min(a, b) == IF a <= b THEN a ELSE b
SetMin(S) == CHOOSE x \in S : \A y \in S : x <= y
SetMax(S) == CHOOSE x \in S : \A y \in S : x >= y

----------------------------------------------------------------------------
\* Multiset arithmetic of differential dataflow collections

RECURSIVE SumR(_)
\* The sum of the multiplicities of a set of distinct updates.
SumR(S) == IF S = {} THEN 0
           ELSE LET x == CHOOSE y \in S : TRUE IN x.r + SumR(S \ {x})

Strip(x) == [x EXCEPT !.r = 0]

\* Consolidation: img pairs each update with the thing it comes from; updates
\* of the same data and time add their multiplicities and an update of
\* multiplicity 0 vanishes.
Consolidate(img) ==
    LET tagged == {[tag |-> p[1], key |-> Strip(p[2]), r |-> p[2].r] : p \in img}
        keys == {x.key : x \in tagged}
        Weigh(k) == [k EXCEPT !.r = SumR({x \in tagged : x.key = k})]
    IN {y \in {Weigh(k) : k \in keys} : y.r # 0}

\* Collection::concat (lines 180-182, 290-292): the multiset union.
Concat(A, B) ==
    IF A = {} THEN B
    ELSE IF B = {} THEN A
    ELSE Consolidate({<<1, a>> : a \in A} \cup {<<2, b>> : b \in B})

\* The accumulated multiplicity of data d in collection C at time t.
Acc(C, t, d) == SumR({x \in C : x.d = d /\ x.t <= t})

----------------------------------------------------------------------------
\* The engine's contract (spec 4.1, 4.2): arrangements and half_join

\* arrange_by_key of a mapped collection: keyed pairs each update of the
\* collection with the (key, value) the map gives for its data.
arrange_by_key(keyed) ==
    Consolidate({<<p[1], [k |-> p[2][1], v |-> p[2][2],
                          t |-> p[1].t, r |-> p[1].r]>> : p \in keyed})

\* An arrangement read through a trace whose logical compaction frontier is
\* since: the engine may advance every time below since up to it.
View(arr, since) ==
    Consolidate({<<e, [e EXCEPT !.t = Max(e.t, since)]>> : e \in arr})

\* half_join defers a proposal until the probed arrangement's frontier has
\* passed its time and nothing the frontier allows is still visible to it.
Passed(s, frontier) == s.t < frontier

\* The proposals of stream paired with the entries of arr of their key.
Matches(stream, arr) ==
    {[s |-> q[1], e |-> q[2]] :
        q \in {p \in stream \X arr : p[2].k = p[1].k}}

\* half_join(stream, arrangement, frontier_func, comparison, output_func):
\* a proposal ((k, v, t0), t, r) meets every entry (k, v2, t2, r2) of its key
\* with comparison(t2, t); the result carries as data the least upper bound
\* of t2 and t0, keeps the proposal's timestamp t, and has weight r * r2.
\* hits pairs each match that passed the comparison with the output_func's
\* result for it.
half_join(hits) ==
    IF hits = {} THEN {}
    ELSE Consolidate({<<h[1], [d |-> h[2],
                               t0 |-> Max(h[1].e.t, h[1].s.t0),
                               t |-> h[1].s.t,
                               r |-> h[1].s.r * h[1].e.r]>> : h \in hits})

\* .map(|((k, v), t)| (k, v, t)) (lines 136, 153, 170): the result of one
\* half_join re-keyed as the proposals of the next.
Rekey(S) ==
    {[k |-> x.d[1], v |-> x.d[2], t0 |-> x.t0, t |-> x.t, r |-> x.r] : x \in S}

\* The times a half_join holds: its input frontier and the times of the
\* proposals it has stashed.
Held(frontier, stash) == {frontier} \cup {s.t : s \in stash}

\* The frontier a half_join passes downstream.
Lower(frontier, stash) == SetMin(Held(frontier, stash))

----------------------------------------------------------------------------
\* regular_join (lines 44-61)

\* Join::join_map: every pair of updates of one key, at the least upper bound
\* of their times, with the product of their multiplicities.
\* hits pairs each match with the closure's result for it.
join_map(hits) ==
    Consolidate({<<h[1], [d |-> h[2], t |-> Max(h[1].s.t, h[1].e.t),
                          r |-> h[1].s.r * h[1].e.r]>> : h \in hits})

Keyed(C) == {[k |-> x.d[1], v |-> x.d[2], t |-> x.t, r |-> x.r] : x \in C}

regular_join(o, u, p) ==
    LET orders == arrange_by_key({<<e, <<e.d.uid, e.d>>>> : e \in o})
        users == arrange_by_key({<<e, <<e.d.uid, e.d>>>> : e \in u})
        provinces == arrange_by_key({<<e, <<e.d.pid, e.d>>>> : e \in p})
        ou == join_map({<<m, <<m.e.v.pid, <<m.s.v, m.e.v>>>>>> :
                           m \in Matches(orders, users)})
    IN join_map({<<m, <<m.s.v[1], m.s.v[2], m.e.v>>>> :
                    m \in Matches(Keyed(ou), provinces)})

----------------------------------------------------------------------------
\* regular_join_core (lines 64-85)

\* JoinCore::join_core on two arrangements: every pair of entries of one key
\* hands (key, val1, val2) to the closure, and every element of the iterator
\* the closure returns is emitted at the least upper bound of the two times
\* with the product of the two multiplicities.  hits pairs each match with
\* the set of results the closure's Option yields for it.
join_core(hits) ==
    Consolidate({<<q, [d |-> q[2], t |-> Max(q[1].s.t, q[1].e.t),
                       r |-> q[1].s.r * q[1].e.r]>> :
                    q \in UNION {{h[1]} \X h[2] : h \in hits}})

\* let order = order.map(|o| (o.uid, o)).arrange_by_key();  (line 73)
core_order(o) == arrange_by_key({<<e, <<e.d.uid, e.d>>>> : e \in o})
\* let user = user.map(|u| (u.uid, u)).arrange_by_key();  (line 74)
core_user(u) == arrange_by_key({<<e, <<e.d.uid, e.d>>>> : e \in u})
\* let province = province.map(|p| (p.pid, p)).arrange_by_key();  (line 75)
core_province(p) == arrange_by_key({<<e, <<e.d.pid, e.d>>>> : e \in p})

intermediate_by_uid(o, u) ==
    arrange_by_key(
        {<<x, x.d>> :
            x \in join_core({<<m, {<<m.e.v.uid, <<m.s.v, m.e.v>>>>}>> :
                                m \in Matches(core_order(o), core_user(u))})})

\* The Order-User join, Some((u.pid, (o, u))), arranged by its key
\* (lines 78-80).
intermediate(o, u) ==
    arrange_by_key(
        {<<x, x.d>> :
            x \in join_core({<<m, {<<m.e.v.pid, <<m.s.v, m.e.v>>>>}>> :
                                m \in Matches(core_order(o), core_user(u))})})

\* intermediate.join_core(&province, ...) with Some((o, u, p)) (lines 82-84).
regular_join_core(o, u, p) ==
    join_core({<<m, {<<m.s.v[1], m.s.v[2], m.e.v>>}>> :
                  m \in Matches(intermediate(o, u), core_province(p))})

----------------------------------------------------------------------------
\* delta_join (lines 92-186)

order_arrange(o) == arrange_by_key({<<e, <<e.d.uid, e.d>>>> : e \in o})
user_uid_arrange(u) == arrange_by_key({<<e, <<e.d.uid, e.d>>>> : e \in u})
user_pid_arrange_one_key(u) == arrange_by_key({<<e, <<1, e.d>>>> : e \in u})
user_pid_arrange(u) == arrange_by_key({<<e, <<e.d.pid, e.d>>>> : e \in u})
province_arrange_inserts(p) ==
    arrange_by_key({<<e, <<e.d.pid, e.d>>>> : e \in {x \in p : x.r > 0}})
province_arrange(p) == arrange_by_key({<<e, <<e.d.pid, e.d>>>> : e \in p})

order_change_unstamped(o) ==
    {[k |-> e.d.uid, v |-> e.d, t0 |-> 0, t |-> e.t, r |-> e.r] : e \in o}
order_change(o) ==
    {[k |-> e.d.uid, v |-> e.d, t0 |-> e.t, t |-> e.t, r |-> e.r] : e \in o}
user_change_unstamped(u) ==
    {[k |-> e.d.uid, v |-> e.d, t0 |-> 0, t |-> e.t, r |-> e.r] : e \in u}
user_change(u) ==
    {[k |-> e.d.uid, v |-> e.d, t0 |-> e.t, t |-> e.t, r |-> e.r] : e \in u}
province_change(p) ==
    {[k |-> e.d.pid, v |-> e.d, t0 |-> e.t, t |-> e.t, r |-> e.r] : e \in p}

frontier_func_no_step_back(time) == time
frontier_func_unsaturated(time) == time - 1
frontier_func_ahead(time) == time + 1
frontier_func(time) == IF time >= 1 THEN time - 1 ELSE 0

\* The compaction frontier a half_join of delta_join sets on the trace it
\* probes: frontier_func applied to the times it holds.
compaction(frontier, stash) ==
    SetMin({frontier_func(t) : t \in Held(frontier, stash)})

\* The comparison closures; t1 is the time of the probed entry, t2 the time
\* of the proposal.  Priority: order < user < province.
cmp_order_user_tie(t1, t2) == t1 <= t2
cmp_order_user(t1, t2) == t1 < t2
cmp_order_province(t1, t2) == t1 < t2
cmp_user_order_strict(t1, t2) == t1 < t2
cmp_user_order(t1, t2) == t1 <= t2
cmp_user_province_tie(t1, t2) == t1 <= t2
cmp_user_province(t1, t2) == t1 < t2
cmp_province_user_strict(t1, t2) == t1 < t2
cmp_province_user(t1, t2) == t1 <= t2
cmp_province_order_strict(t1, t2) == t1 < t2
cmp_province_order(t1, t2) == t1 <= t2

order_update_1(s, arr) ==
    Rekey(half_join(
        {<<m, LET o == m.s.v  u == m.e.v IN <<u.pid, <<o, u>>>>>> :
            m \in {h \in Matches(s, arr) : cmp_order_user(h.e.t, h.s.t)}}))
order_update_2(s, arr) ==
    half_join(
        {<<m, LET ou == m.s.v  p == m.e.v IN <<ou[1], ou[2], p>>>> :
            m \in {h \in Matches(s, arr) : cmp_order_province(h.e.t, h.s.t)}})

user_update_1(s, arr) ==
    Rekey(half_join(
        {<<m, LET u == m.s.v  o == m.e.v IN <<u.pid, <<o, u>>>>>> :
            m \in {h \in Matches(s, arr) : cmp_user_order(h.e.t, h.s.t)}}))
user_update_2(s, arr) ==
    half_join(
        {<<m, LET ou == m.s.v  p == m.e.v IN <<ou[1], ou[2], p>>>> :
            m \in {h \in Matches(s, arr) : cmp_user_province(h.e.t, h.s.t)}})

province_update_1(s, arr) ==
    Rekey(half_join(
        {<<m, LET p == m.s.v  u == m.e.v IN <<u.uid, <<u, p>>>>>> :
            m \in {h \in Matches(s, arr) : cmp_province_user(h.e.t, h.s.t)}}))
province_update_2(s, arr) ==
    half_join(
        {<<m, LET up == m.s.v  o == m.e.v IN <<o, up[1], up[2]>>>> :
            m \in {h \in Matches(s, arr) : cmp_province_order(h.e.t, h.s.t)}})

\* order_update.concat(&user_update).concat(&province_update)
\*     .inner.map(|((d, t), _, r)| (d, t, r))
collect_distinct(order_update, user_update, province_update) ==
    {[d |-> x.d, t |-> x.t0, r |-> x.r] :
        x \in order_update \cup user_update \cup province_update}
collect(order_update, user_update, province_update) ==
    Consolidate({<<x, [d |-> x.d, t |-> x.t0, r |-> x.r]>> :
        x \in Concat(Concat(order_update, user_update), province_update)})

\* The delta_join dataflow before any input: the stash of each half_join
\* (o1, o2: the two steps of the order path, and so on), what the first step
\* of each path has emitted (mid) and what each path has emitted (update).
Idle == [o1 |-> {}, o2 |-> {}, u1 |-> {}, u2 |-> {}, p1 |-> {}, p2 |-> {},
         order_mid |-> {}, user_mid |-> {}, province_mid |-> {},
         order_update |-> {}, user_update |-> {}, province_update |-> {}]

\* One scheduling round of the delta_join dataflow d over the inputs o, u, p
\* with frontier f: each half_join, in dataflow order, serves the proposals
\* whose time the probed arrangement has passed, reading the arrangement
\* through the compaction the operators holding its trace have allowed.
delta_join_round(d, o, u, p, f) ==
    LET since_user_uid == compaction(f, d.o1)
        since_user_pid == compaction(f, d.p1)
        since_order ==
            Min(compaction(f, d.u1),
                compaction(Lower(f, d.p1), d.p2))
        since_province ==
            Min(compaction(Lower(f, d.o1), d.o2),
                compaction(Lower(f, d.u1), d.u2))
        oa == View(order_arrange(o), since_order)
        uua == View(user_uid_arrange(u), since_user_uid)
        upa == View(user_pid_arrange(u), since_user_pid)
        pa == View(province_arrange(p), since_province)
        o1r == {s \in d.o1 : Passed(s, f) /\ ~cmp_order_user(f, s.t)}
        o1out == order_update_1(o1r, uua)
        o2in == Concat(d.o2, o1out)
        o2r == {s \in o2in : Passed(s, f) /\ ~cmp_order_province(f, s.t)}
        u1r == {s \in d.u1 : Passed(s, f) /\ ~cmp_user_order(f, s.t)}
        u1out == user_update_1(u1r, oa)
        u2in == Concat(d.u2, u1out)
        u2r == {s \in u2in : Passed(s, f) /\ ~cmp_user_province(f, s.t)}
        p1r == {s \in d.p1 : Passed(s, f) /\ ~cmp_province_user(f, s.t)}
        p1out == province_update_1(p1r, upa)
        p2in == Concat(d.p2, p1out)
        p2r == {s \in p2in : Passed(s, f) /\ ~cmp_province_order(f, s.t)}
    IN [o1 |-> d.o1 \ o1r, o2 |-> o2in \ o2r,
        u1 |-> d.u1 \ u1r, u2 |-> u2in \ u2r,
        p1 |-> d.p1 \ p1r, p2 |-> p2in \ p2r,
        order_mid |-> Concat(d.order_mid, o1out),
        user_mid |-> Concat(d.user_mid, u1out),
        province_mid |-> Concat(d.province_mid, p1out),
        order_update |-> Concat(d.order_update, order_update_2(o2r, pa)),
        user_update |-> Concat(d.user_update, user_update_2(u2r, pa)),
        province_update |->
            Concat(d.province_update, province_update_2(p2r, oa))]

----------------------------------------------------------------------------
\* delta_join_late_materialization (lines 195-296)

lm_order_arrange(o) == arrange_by_key({<<e, <<e.d.uid, e.d>>>> : e \in o})
lm_user_uid_arrange(u) == arrange_by_key({<<e, <<e.d.uid, e.d>>>> : e \in u})
lm_user_pid_arrange_self(u) ==
    arrange_by_key({<<e, <<e.d.pid, e.d.pid>>>> : e \in u})
\* the secondary index: the value is the Uid, not the User
lm_user_pid_arrange(u) == arrange_by_key({<<e, <<e.d.pid, e.d.uid>>>> : e \in u})
lm_province_arrange(p) == arrange_by_key({<<e, <<e.d.pid, e.d>>>> : e \in p})

lm_order_change(o) ==
    {[k |-> e.d.uid, v |-> e.d, t0 |-> e.t, t |-> e.t, r |-> e.r] : e \in o}
lm_user_change(u) ==
    {[k |-> e.d.uid, v |-> e.d, t0 |-> e.t, t |-> e.t, r |-> e.r] : e \in u}
lm_province_change(p) ==
    {[k |-> e.d.pid, v |-> e.d, t0 |-> e.t, t |-> e.t, r |-> e.r] : e \in p}

lm_frontier_func(time) == IF time >= 1 THEN time - 1 ELSE 0

\* The compaction frontier a half_join of delta_join_late_materialization
\* sets on the trace it probes: frontier_func applied to the times it holds.
lm_compaction(frontier, stash) ==
    SetMin({lm_frontier_func(t) : t \in Held(frontier, stash)})

lm_cmp_order_user(t1, t2) == t1 < t2
lm_cmp_order_province(t1, t2) == t1 < t2
lm_cmp_user_order_strict(t1, t2) == t1 < t2
lm_cmp_user_order(t1, t2) == t1 <= t2
lm_cmp_user_province_tie(t1, t2) == t1 <= t2
lm_cmp_user_province(t1, t2) == t1 < t2
lm_cmp_province_user_pid_strict(t1, t2) == t1 < t2
lm_cmp_province_user_pid(t1, t2) == t1 <= t2
lm_cmp_province_user_uid_strict(t1, t2) == t1 < t2
lm_cmp_province_user_uid(t1, t2) == t1 <= t2
lm_cmp_province_order(t1, t2) == t1 <= t2

lm_order_update_1(s, arr) ==
    Rekey(half_join(
        {<<m, LET o == m.s.v  u == m.e.v IN <<u.pid, <<o, u>>>>>> :
            m \in {h \in Matches(s, arr) : lm_cmp_order_user(h.e.t, h.s.t)}}))
lm_order_update_2(s, arr) ==
    half_join(
        {<<m, LET ou == m.s.v  p == m.e.v IN <<ou[1], ou[2], p>>>> :
            m \in {h \in Matches(s, arr) : lm_cmp_order_province(h.e.t, h.s.t)}})

lm_user_update_1(s, arr) ==
    Rekey(half_join(
        {<<m, LET u == m.s.v  o == m.e.v IN <<u.pid, <<o, u>>>>>> :
            m \in {h \in Matches(s, arr) : lm_cmp_user_order(h.e.t, h.s.t)}}))
lm_user_update_2(s, arr) ==
    half_join(
        {<<m, LET ou == m.s.v  p == m.e.v IN <<ou[1], ou[2], p>>>> :
            m \in {h \in Matches(s, arr) : lm_cmp_user_province(h.e.t, h.s.t)}})

\* the secondary index yields the uid ...
lm_province_update_1(s, arr) ==
    Rekey(half_join(
        {<<m, LET p == m.s.v  uid == m.e.v IN <<uid, p>>>> :
            m \in {h \in Matches(s, arr) : lm_cmp_province_user_pid(h.e.t, h.s.t)}}))
\* ... which the primary index resolves to the User
lm_province_update_2(s, arr) ==
    Rekey(half_join(
        {<<m, LET p == m.s.v  u == m.e.v IN <<u.uid, <<u, p>>>>>> :
            m \in {h \in Matches(s, arr) : lm_cmp_province_user_uid(h.e.t, h.s.t)}}))
lm_province_update_3(s, arr) ==
    half_join(
        {<<m, LET up == m.s.v  o == m.e.v IN <<o, up[1], up[2]>>>> :
            m \in {h \in Matches(s, arr) : lm_cmp_province_order(h.e.t, h.s.t)}})

lm_collect(order_update, user_update, province_update) ==
    Consolidate({<<x, [d |-> x.d, t |-> x.t0, r |-> x.r]>> :
        x \in Concat(Concat(order_update, user_update), province_update)})

LateIdle ==
    [o1 |-> {}, o2 |-> {}, u1 |-> {}, u2 |-> {}, p1 |-> {}, p2 |-> {},
     p3 |-> {},
     order_mid |-> {}, user_mid |-> {}, province_mid |-> {},
     province_mid2 |-> {},
     order_update |-> {}, user_update |-> {}, province_update |-> {}]

\* One scheduling round of the delta_join_late_materialization dataflow.
late_materialization_round(d, o, u, p, f) ==
    LET since_user_uid ==
            Min(lm_compaction(f, d.o1),
                lm_compaction(Lower(f, d.p1), d.p2))
        since_user_pid == lm_compaction(f, d.p1)
        since_order ==
            Min(lm_compaction(f, d.u1),
                lm_compaction(Lower(Lower(f, d.p1), d.p2), d.p3))
        since_province ==
            Min(lm_compaction(Lower(f, d.o1), d.o2),
                lm_compaction(Lower(f, d.u1), d.u2))
        oa == View(lm_order_arrange(o), since_order)
        uua == View(lm_user_uid_arrange(u), since_user_uid)
        upa == View(lm_user_pid_arrange(u), since_user_pid)
        pa == View(lm_province_arrange(p), since_province)
        o1r == {s \in d.o1 : Passed(s, f) /\ ~lm_cmp_order_user(f, s.t)}
        o1out == lm_order_update_1(o1r, uua)
        o2in == Concat(d.o2, o1out)
        o2r == {s \in o2in : Passed(s, f) /\ ~lm_cmp_order_province(f, s.t)}
        u1r == {s \in d.u1 : Passed(s, f) /\ ~lm_cmp_user_order(f, s.t)}
        u1out == lm_user_update_1(u1r, oa)
        u2in == Concat(d.u2, u1out)
        u2r == {s \in u2in : Passed(s, f) /\ ~lm_cmp_user_province(f, s.t)}
        p1r == {s \in d.p1 : Passed(s, f) /\ ~lm_cmp_province_user_pid(f, s.t)}
        p1out == lm_province_update_1(p1r, upa)
        p2in == Concat(d.p2, p1out)
        p2r == {s \in p2in : Passed(s, f) /\ ~lm_cmp_province_user_uid(f, s.t)}
        p2out == lm_province_update_2(p2r, uua)
        p3in == Concat(d.p3, p2out)
        p3r == {s \in p3in : Passed(s, f) /\ ~lm_cmp_province_order(f, s.t)}
    IN [o1 |-> d.o1 \ o1r, o2 |-> o2in \ o2r,
        u1 |-> d.u1 \ u1r, u2 |-> u2in \ u2r,
        p1 |-> d.p1 \ p1r, p2 |-> p2in \ p2r, p3 |-> p3in \ p3r,
        order_mid |-> Concat(d.order_mid, o1out),
        user_mid |-> Concat(d.user_mid, u1out),
        province_mid |-> Concat(d.province_mid, p1out),
        province_mid2 |-> Concat(d.province_mid2, p2out),
        order_update |-> Concat(d.order_update, lm_order_update_2(o2r, pa)),
        user_update |-> Concat(d.user_update, lm_user_update_2(u2r, pa)),
        province_update |->
            Concat(d.province_update, lm_province_update_3(p3r, oa))]

----------------------------------------------------------------------------
\* The running dataflow

VARIABLES
    order, user, province,  \* the input collections delivered so far
    now,                    \* the frontier of the three input collections
    feed, budget,           \* the driver's feed and how many events it may send
    dj,                     \* the delta_join dataflow
    lm                      \* the delta_join_late_materialization dataflow

vars == <<order, user, province, now, feed, budget, dj, lm>>

\* Every update of the records D at the times 0..MaxTime with a multiplicity
\* of R.
Events(D, R) == {Update(d, t, r) : d \in D, t \in 0..MaxTime, r \in R}

\* The feed "any": every insert and delete, at every time, of the records of
\* one chain Order(100) -> User(10) -> Province(1).
AnyEvents ==
    [order |-> Events({Order(100, 50, 10)}, {1, -1}),
     user |-> Events({User(10, 1)}, {1, -1}),
     province |-> Events({Province(1, "Beijing")}, {1, -1})]

\* The feed "keys": every insert, at every time, of records that match and
\* records that do not: two User records share uid 10, User(11, 1) has no
\* order, User(10, 2) points to the other province.
KeysEvents ==
    [order |-> Events({Order(100, 50, 10)}, {1}),
     user |-> Events(Users, {1}),
     province |-> Events(Provinces, {1})]

\* The feed "tie": three inserts at 0, a second order at 1, and at 2 the user
\* moves to a province inserted at the same time.
TieScript ==
    [order |-> {Update(Order(100, 50, 10), 0, 1),
                Update(Order(101, 20, 10), 1, 1)},
     user |-> {Update(User(10, 1), 0, 1), Update(User(10, 1), 2, -1),
               Update(User(10, 2), 2, 1)},
     province |-> {Update(Province(1, "Beijing"), 0, 1),
                   Update(Province(2, "Shanghai"), 2, 1)}]

FeedSize(s) ==
    Cardinality(s.order) + Cardinality(s.user) + Cardinality(s.province)

\* The change events the driver may send.
script ==
    CASE feed = "any" -> AnyEvents
      [] feed = "keys" -> KeysEvents
      [] feed = "tie" -> TieScript

\* The last time the feed mentions.
Horizon ==
    SetMax({0} \cup {e.t : e \in script.order} \cup {e.t : e \in script.user}
               \cup {e.t : e \in script.province})

Start(f, n) ==
    /\ order = {} /\ user = {} /\ province = {}
    /\ now = 0
    /\ feed = f
    /\ budget = n
    /\ dj = Idle
    /\ lm = LateIdle

Init ==
    \/ Start("any", MaxEvents)
    \/ Start("keys", MaxEvents)
    \/ Start("tie", FeedSize(TieScript))

\* An input delivers an update at any time its frontier has not passed; the
\* feed holds one update per record and time.
CanSend(coll, allowed, e) ==
    /\ budget > 0
    /\ e \in allowed
    /\ e.t >= now
    /\ \A x \in coll : ~(x.d = e.d /\ x.t = e.t)

\* An update of order reaches order_arrange and the order path of both
\* dataflows (order_change).
SendOrder(e) ==
    /\ CanSend(order, script.order, e)
    /\ order' = order \cup {e}
    /\ budget' = budget - 1
    /\ dj' = [dj EXCEPT !.o1 = @ \cup order_change({e})]
    /\ lm' = [lm EXCEPT !.o1 = @ \cup lm_order_change({e})]
    /\ UNCHANGED <<user, province, now, feed>>

SendUser(e) ==
    /\ CanSend(user, script.user, e)
    /\ user' = user \cup {e}
    /\ budget' = budget - 1
    /\ dj' = [dj EXCEPT !.u1 = @ \cup user_change({e})]
    /\ lm' = [lm EXCEPT !.u1 = @ \cup lm_user_change({e})]
    /\ UNCHANGED <<order, province, now, feed>>

SendProvince(e) ==
    /\ CanSend(province, script.province, e)
    /\ province' = province \cup {e}
    /\ budget' = budget - 1
    /\ dj' = [dj EXCEPT !.p1 = @ \cup province_change({e})]
    /\ lm' = [lm EXCEPT !.p1 = @ \cup lm_province_change({e})]
    /\ UNCHANGED <<order, user, now, feed>>

\* The inputs close the time now: their frontier advances past it.
AdvanceTo ==
    /\ now <= Horizon
    /\ now' = now + 1
    /\ UNCHANGED <<order, user, province, feed, budget, dj, lm>>

Waiting(stash) == \E s \in stash : s.t < now

\* worker.step(): one scheduling round of both dataflows.
Step ==
    /\ \/ Waiting(dj.o1) \/ Waiting(dj.u1) \/ Waiting(dj.p1)
       \/ Waiting(lm.o1) \/ Waiting(lm.u1) \/ Waiting(lm.p1)
    /\ dj' = delta_join_round(dj, order, user, province, now)
    /\ lm' = late_materialization_round(lm, order, user, province, now)
    /\ UNCHANGED <<order, user, province, now, feed, budget>>

\* What the two functions have produced so far.
delta_join == collect(dj.order_update, dj.user_update, dj.province_update)

delta_join_late_materialization ==
    lm_collect(lm.order_update, lm.user_update, lm.province_update)

Next ==
    \/ \E e \in script.order : SendOrder(e)
    \/ \E e \in script.user : SendUser(e)
    \/ \E e \in script.province : SendProvince(e)
    \/ AdvanceTo
    \/ Step

Spec == Init /\ [][Next]_vars

----------------------------------------------------------------------------
\* Times whose output is final: the input frontier has passed t and no
\* half_join still stashes a proposal at or before t.

Drained(stash, t) == \A s \in stash : s.t > t

Done(t) ==
    /\ t < now
    /\ Drained(dj.o1, t) /\ Drained(dj.o2, t) /\ Drained(dj.u1, t)
    /\ Drained(dj.u2, t) /\ Drained(dj.p1, t) /\ Drained(dj.p2, t)
    /\ Drained(lm.o1, t) /\ Drained(lm.o2, t) /\ Drained(lm.u1, t)
    /\ Drained(lm.u2, t) /\ Drained(lm.p1, t) /\ Drained(lm.p2, t)
    /\ Drained(lm.p3, t)

Times == 0..Horizon

\* Every (Order, User, Province) triple of records of the feed.
Tuples ==
    {<<o, u, p>> : o \in {e.d : e \in script.order},
                   u \in {e.d : e \in script.user},
                   p \in {e.d : e \in script.province}}

\* The relation as of t, as a collection at the single time t.
Snapshot(C, t) ==
    Consolidate({<<x, [x EXCEPT !.t = t]>> : x \in {y \in C : y.t <= t}})

\* The multiplicity of the update of data d at exactly time t.
Mult(C, t, d) == SumR({x \in C : x.d = d /\ x.t = t})

\* What the join of the relations as of t holds: regular_join of the three
\* snapshots.
Baseline(t) ==
    regular_join(Snapshot(order, t), Snapshot(user, t), Snapshot(province, t))

----------------------------------------------------------------------------
\* C1: at every final time t, the multiplicities delta_join has emitted for a
\* tuple at times <= t add up to the multiplicity of the tuple in regular_join
\* of the three relations as of t.
C1_Equivalence ==
    LET out == delta_join
    IN \A t \in Times : Done(t) =>
           LET base == Baseline(t)
           IN \A d \in Tuples : Acc(out, t, d) = Acc(base, t, d)

\* A tuple that is in the join as of 0 and, after a delete, no longer as of 1.
C1_Witness ==
    /\ Done(1)
    /\ \E d \in Tuples : Acc(delta_join, 0, d) = 1 /\ Acc(delta_join, 1, d) = 0
    /\ \E d \in Tuples : Acc(Baseline(0), 0, d) = 1

----------------------------------------------------------------------------
\* The tuples connected by the foreign-key chain.
Connected(d) == d[1].uid = d[2].uid /\ d[2].pid = d[3].pid

\* The updates of record rec in collection C.
Of(C, rec) == {x \in C : x.d = rec}

\* Order and User both get their only update, an insert, at t, and the
\* Province was inserted before.
TieOrderUser(d, t) ==
    /\ Connected(d)
    /\ Of(order, d[1]) = {Update(d[1], t, 1)}
    /\ Of(user, d[2]) = {Update(d[2], t, 1)}
    /\ \E t0 \in 0..(t - 1) : Of(province, d[3]) = {Update(d[3], t0, 1)}

\* User and Province both get their only update, an insert, at t, and the
\* Order was inserted before.
TieUserProvince(d, t) ==
    /\ Connected(d)
    /\ Of(user, d[2]) = {Update(d[2], t, 1)}
    /\ Of(province, d[3]) = {Update(d[3], t, 1)}
    /\ \E t0 \in 0..(t - 1) : Of(order, d[1]) = {Update(d[1], t0, 1)}

\* C2: when the two relations of a joined pair both receive a matching insert
\* at the same time t and the third record is already present, delta_join
\* emits the combined tuple at t with multiplicity exactly 1.
C2_NoDoubleCountingAtTies ==
    LET out == delta_join
    IN \A t \in Times : Done(t) =>
           \A d \in Tuples :
               (TieOrderUser(d, t) \/ TieUserProvince(d, t))
                   => Mult(out, t, d) = 1

C2_Witness == \E t \in Times : Done(t) /\ \E d \in Tuples : TieOrderUser(d, t)

C2_WitnessUserProvince ==
    \E t \in Times : Done(t) /\ \E d \in Tuples : TieUserProvince(d, t)

----------------------------------------------------------------------------
\* The updates of collection C at times <= t.
UpTo(C, t) == {x \in C : x.t <= t}

\* uid is a primary key of User as of t: every User record has multiplicity
\* 0 or 1 and no two User records of one uid are present together.
PrimaryKeyAt(t) ==
    LET recs == {x.d : x \in user}
    IN /\ \A u \in recs : Acc(user, t, u) \in {0, 1}
       /\ \A u1, u2 \in recs :
              (u1 # u2 /\ u1.uid = u2.uid)
                  => ~(Acc(user, t, u1) = 1 /\ Acc(user, t, u2) = 1)

\* No record of a relation has a negative multiplicity as of any time.
Multiset(C) == \A t \in Times : \A rec \in {x.d : x \in C} : Acc(C, t, rec) >= 0

\* C3 as stated: on every input, repeated inserts of one User and several
\* User records of one uid included, the two variants produce the same
\* updates.  (Stated for the inputs that are multisets, which the claim
\* covers.)
C3_Interchangeable ==
    \A t \in Times :
        (Done(t) /\ Multiset(order) /\ Multiset(user) /\ Multiset(province))
            => UpTo(delta_join, t) = UpTo(delta_join_late_materialization, t)

\* C3 amended: the two variants produce the same updates up to every final
\* time t such that uid is a primary key of User as of every time <= t.
C3_InterchangeableOnPrimaryKey ==
    \A t \in Times :
        (Done(t) /\ \A t2 \in 0..t : PrimaryKeyAt(t2)) =>
            UpTo(delta_join, t) = UpTo(delta_join_late_materialization, t)

\* The user has moved from province 1 to province 2 and the late
\* materialization has emitted a tuple with the moved user.
C3_Witness ==
    /\ Done(2)
    /\ \A t2 \in 0..2 : PrimaryKeyAt(t2)
    /\ Acc(user, 0, User(10, 1)) = 1 /\ Acc(user, 2, User(10, 1)) = 0
    /\ \E x \in lm.province_update : x.d[2] = User(10, 2)

----------------------------------------------------------------------------
\* The records of the three relations that have an update.
Inserted(C) == {x.d : x \in C}

\* rec has exactly two updates: an insert at t1 and a delete at t2 > t1.
Retracted(C, rec, t1, t2) ==
    t1 < t2 /\ Of(C, rec) = {Update(rec, t1, 1), Update(rec, t2, -1)}

RetractedIn(d, t1, t2) ==
    \/ Retracted(order, d[1], t1, t2)
    \/ Retracted(user, d[2], t1, t2)
    \/ Retracted(province, d[3], t1, t2)

\* C4: when a record is inserted at t1 and deleted at t2 > t1, every tuple
\* that contains it has accumulated multiplicity 0 at every final time >= t2,
\* and what was present before t2 is cancelled by an update stamped t2.
C4_RetractionCancellation ==
    LET out == delta_join
    IN \A d \in Tuples : \A t1, t2 \in Times :
           RetractedIn(d, t1, t2) =>
               /\ \A t \in t2..Horizon : Done(t) => Acc(out, t, d) = 0
               /\ Done(t2) => Mult(out, t2, d) = 0 - Acc(out, t2 - 1, d)

C4_Witness ==
    \E d \in Tuples :
        /\ Done(1)
        /\ RetractedIn(d, 0, 1)
        /\ Acc(delta_join, 0, d) = 1
        /\ Mult(delta_join, 1, d) = -1

----------------------------------------------------------------------------
\* x, emitted by a half_join, is stamped (as data and as timestamp) with the
\* time of an update of record rec in the relation C that starts the path.
Stamped(x, C, rec) == x.t0 = x.t /\ \E e \in C : e.d = rec /\ e.t = x.t0

\* C5: every update a delta path emits, after each of its half_join steps and
\* in both functions, is stamped with the time of the change event of the
\* path's own relation that started it.
C5_StampedWithOriginTime ==
    /\ \A x \in dj.order_mid : Stamped(x, order, x.v[1])
    /\ \A x \in dj.order_update : Stamped(x, order, x.d[1])
    /\ \A x \in dj.user_mid : Stamped(x, user, x.v[2])
    /\ \A x \in dj.user_update : Stamped(x, user, x.d[2])
    /\ \A x \in dj.province_mid : Stamped(x, province, x.v[2])
    /\ \A x \in dj.province_update : Stamped(x, province, x.d[3])
    /\ \A x \in lm.order_mid : Stamped(x, order, x.v[1])
    /\ \A x \in lm.order_update : Stamped(x, order, x.d[1])
    /\ \A x \in lm.user_mid : Stamped(x, user, x.v[2])
    /\ \A x \in lm.user_update : Stamped(x, user, x.d[2])
    /\ \A x \in lm.province_mid : Stamped(x, province, x.v)
    /\ \A x \in lm.province_mid2 : Stamped(x, province, x.v[2])
    /\ \A x \in lm.province_update : Stamped(x, province, x.d[3])

\* The order path has emitted, stamped 1, a tuple whose User and Province
\* entries it found at time 0.
C5_Witness ==
    \E x \in dj.order_update :
        /\ x.t0 = 1
        /\ Of(order, x.d[1]) = {Update(x.d[1], 1, 1)}
        /\ Of(user, x.d[2]) = {Update(x.d[2], 0, 1)}
        /\ Of(province, x.d[3]) = {Update(x.d[3], 0, 1)}

----------------------------------------------------------------------------
\* C6 as stated: every tuple either function emits is connected by the
\* foreign-key chain.
C6_ForeignKeyChain ==
    /\ \A x \in delta_join : Connected(x.d)
    /\ \A x \in delta_join_late_materialization : Connected(x.d)

\* C6 amended: every tuple delta_join emits is connected, and so is every
\* tuple delta_join_late_materialization emits at a time as of which uid is
\* a primary key of User.
C6_ForeignKeyChainOnPrimaryKey ==
    /\ \A x \in delta_join : Connected(x.d)
    /\ \A x \in delta_join_late_materialization :
           PrimaryKeyAt(x.t) => Connected(x.d)

\* Both functions have emitted a tuple while a User of another uid and a
\* User of another pid were present.
C6_Witness ==
    /\ delta_join # {}
    /\ \E x \in lm.province_update :
           /\ PrimaryKeyAt(x.t)
           /\ \E u \in Inserted(user) : u.uid # x.d[1].uid
           /\ \E u \in Inserted(user) : u.pid # x.d[3].pid

----------------------------------------------------------------------------
\* C7: Province(1, "Beijing"), User(10, 1) and Order(100, 50, 10) inserted at
\* time 0 into empty relations give exactly one update: their tuple, +1 at 0.
C7_ThreeWayTie ==
    LET o == Order(100, 50, 10)
        u == User(10, 1)
        p == Province(1, "Beijing")
    IN (/\ Done(0)
        /\ UpTo(order, 0) = {Update(o, 0, 1)}
        /\ UpTo(user, 0) = {Update(u, 0, 1)}
        /\ UpTo(province, 0) = {Update(p, 0, 1)})
           => UpTo(delta_join, 0) = {Update(<<o, u, p>>, 0, 1)}

C7_Witness ==
    /\ Done(0)
    /\ UpTo(order, 0) = {Update(Order(100, 50, 10), 0, 1)}
    /\ UpTo(user, 0) = {Update(User(10, 1), 0, 1)}
    /\ UpTo(province, 0) = {Update(Province(1, "Beijing"), 0, 1)}
    /\ dj.province_update # {}

----------------------------------------------------------------------------
\* The whole scenario has been delivered and time 2 is final.
TieDelivered ==
    /\ feed = "tie"
    /\ order = TieScript.order
    /\ user = TieScript.user
    /\ province = TieScript.province
    /\ Done(2)

\* C8: in the scenario the output at time 2 is exactly a retraction of the
\* two tuples of province 1 and an insertion of the two tuples of province 2.
C8_TieScenario ==
    LET o1 == Order(100, 50, 10)
        o2 == Order(101, 20, 10)
        old == <<User(10, 1), Province(1, "Beijing")>>
        new == <<User(10, 2), Province(2, "Shanghai")>>
    IN TieDelivered =>
           {x \in delta_join : x.t = 2}
             = {Update(<<o1, old[1], old[2]>>, 2, -1),
                Update(<<o2, old[1], old[2]>>, 2, -1),
                Update(<<o1, new[1], new[2]>>, 2, 1),
                Update(<<o2, new[1], new[2]>>, 2, 1)}

C8_Witness == TieDelivered /\ dj.user_update # {} /\ dj.province_update # {}

----------------------------------------------------------------------------
\* C9: an entry of the pid-keyed User index of
\* delta_join_late_materialization is the pair (pid, uid) of a User, one
\* identifier whatever columns User has; an entry of the pid-keyed User index
\* of delta_join holds the whole User record, every column of it.
C9_SecondaryIndexEntries ==
    /\ \A e \in lm_user_pid_arrange(user) :
           /\ e.v \in Nat
           /\ \E x \in user : e.k = x.d.pid /\ e.v = x.d.uid
    /\ \A e \in user_pid_arrange(user) :
           \E x \in user :
               e.k = x.d.pid /\ e.v = x.d /\ DOMAIN e.v = {"uid", "pid"}

\* Both indexes hold the entries of two Users of one uid and of two Users of
\* one pid.
C9_Witness ==
    /\ Cardinality(lm_user_pid_arrange(user)) >= 2
    /\ Cardinality(user_pid_arrange(user)) >= 2
    /\ \E a, b \in lm_user_pid_arrange(user) : a.k # b.k /\ a.v = b.v
    /\ \E a, b \in user_pid_arrange(user) : a.k = b.k /\ a.v # b.v

----------------------------------------------------------------------------
\* The combinations of one update of each record of tuple d.
Combos(d) ==
    {c \in order \X user \X province :
        c[1].d = d[1] /\ c[2].d = d[2] /\ c[3].d = d[3]}

\* The path that counts a combination: that of the update with the greatest
\* time, ties going to the higher priority, order < user < province.
Winner(c) ==
    IF c[3].t >= c[1].t /\ c[3].t >= c[2].t THEN "province"
    ELSE IF c[2].t >= c[1].t THEN "user"
    ELSE "order"

Latest(c) == Max(c[1].t, Max(c[2].t, c[3].t))

\* What path must emit for tuple d at time t: the products of the
\* multiplicities of the combinations it counts.
Share(path, d, t) ==
    IF ~Connected(d) THEN 0
    ELSE SumR({[c |-> c, r |-> c[1].r * c[2].r * c[3].r] :
                 c \in {b \in Combos(d) : Winner(b) = path /\ Latest(b) = t}})

\* What a path has emitted for tuple d at time t.
Emitted(S, d, t) == SumR({x \in S : x.d = d /\ x.t0 = t})

\* C10: every combination of matching updates is emitted by exactly one
\* path of delta_join, the path of its latest update with ties going to the
\* higher priority, with the product of the three multiplicities.
C10_ExactlyOnePath ==
    \A t \in Times : Done(t) =>
        \A d \in Tuples :
            /\ Emitted(dj.order_update, d, t) = Share("order", d, t)
            /\ Emitted(dj.user_update, d, t) = Share("user", d, t)
            /\ Emitted(dj.province_update, d, t) = Share("province", d, t)

\* Order and Province are updated at the same time, after the User: the
\* province path has counted the combination and the order path has not.
C10_Witness ==
    \E d \in Tuples :
        /\ Done(1)
        /\ \E c \in Combos(d) : c[1].t = 1 /\ c[2].t = 0 /\ c[3].t = 1
        /\ Emitted(dj.province_update, d, 1) # 0
        /\ Emitted(dj.order_update, d, 1) = 0

----------------------------------------------------------------------------
\* The priority of a relation: order < user < province (lines 125-126).
Priority(rel) == CASE rel = "order" -> 1 [] rel = "user" -> 2
                   [] rel = "province" -> 3

\* What the priority order lets a path of relation from see of an entry of
\* relation of: entries strictly earlier than the event when from has the
\* lower priority, entries earlier than or at the event's time otherwise.
Visible(from, of, entry, event) ==
    IF Priority(from) < Priority(of) THEN entry < event ELSE entry <= event

\* Every proposal a step has received so far paired with every entry of the
\* arrangement it probes, whatever their times.
Probes ==
    [order_user |-> Matches(order_change(order), user_uid_arrange(user)),
     order_province |-> Matches(dj.order_mid, province_arrange(province)),
     user_order |-> Matches(user_change(user), order_arrange(order)),
     user_province |-> Matches(dj.user_mid, province_arrange(province)),
     province_user |-> Matches(province_change(province),
                               user_pid_arrange(user)),
     province_order |-> Matches(dj.province_mid, order_arrange(order))]

LateProbes ==
    [order_user |-> Matches(lm_order_change(order), lm_user_uid_arrange(user)),
     order_province |-> Matches(lm.order_mid, lm_province_arrange(province)),
     user_order |-> Matches(lm_user_change(user), lm_order_arrange(order)),
     user_province |-> Matches(lm.user_mid, lm_province_arrange(province)),
     province_user_pid |-> Matches(lm_province_change(province),
                                   lm_user_pid_arrange(user)),
     province_user_uid |-> Matches(lm.province_mid,
                                   lm_user_uid_arrange(user)),
     province_order |-> Matches(lm.province_mid2, lm_order_arrange(order))]

\* C11: in each of the thirteen half_join steps the comparison keeps exactly
\* the entries the priority order order < user < province makes visible to
\* the path's relation: strictly earlier entries when the probed relation
\* has the higher priority, earlier or simultaneous entries when it has the
\* lower; an entry later than the event is never kept.
C11_VisibilityByPriority ==
    LET dj_probes == Probes
        lm_probes == LateProbes
    IN
        /\ \A m \in dj_probes.order_user :
               /\ cmp_order_user(m.e.t, m.s.t)
                      <=> Visible("order", "user", m.e.t, m.s.t)
               /\ cmp_order_user(m.e.t, m.s.t) => m.e.t <= m.s.t
        /\ \A m \in dj_probes.order_province :
               /\ cmp_order_province(m.e.t, m.s.t)
                      <=> Visible("order", "province", m.e.t, m.s.t)
               /\ cmp_order_province(m.e.t, m.s.t) => m.e.t <= m.s.t
        /\ \A m \in dj_probes.user_order :
               /\ cmp_user_order(m.e.t, m.s.t)
                      <=> Visible("user", "order", m.e.t, m.s.t)
               /\ cmp_user_order(m.e.t, m.s.t) => m.e.t <= m.s.t
        /\ \A m \in dj_probes.user_province :
               /\ cmp_user_province(m.e.t, m.s.t)
                      <=> Visible("user", "province", m.e.t, m.s.t)
               /\ cmp_user_province(m.e.t, m.s.t) => m.e.t <= m.s.t
        /\ \A m \in dj_probes.province_user :
               /\ cmp_province_user(m.e.t, m.s.t)
                      <=> Visible("province", "user", m.e.t, m.s.t)
               /\ cmp_province_user(m.e.t, m.s.t) => m.e.t <= m.s.t
        /\ \A m \in dj_probes.province_order :
               /\ cmp_province_order(m.e.t, m.s.t)
                      <=> Visible("province", "order", m.e.t, m.s.t)
               /\ cmp_province_order(m.e.t, m.s.t) => m.e.t <= m.s.t
        /\ \A m \in lm_probes.order_user :
               /\ lm_cmp_order_user(m.e.t, m.s.t)
                      <=> Visible("order", "user", m.e.t, m.s.t)
               /\ lm_cmp_order_user(m.e.t, m.s.t) => m.e.t <= m.s.t
        /\ \A m \in lm_probes.order_province :
               /\ lm_cmp_order_province(m.e.t, m.s.t)
                      <=> Visible("order", "province", m.e.t, m.s.t)
               /\ lm_cmp_order_province(m.e.t, m.s.t) => m.e.t <= m.s.t
        /\ \A m \in lm_probes.user_order :
               /\ lm_cmp_user_order(m.e.t, m.s.t)
                      <=> Visible("user", "order", m.e.t, m.s.t)
               /\ lm_cmp_user_order(m.e.t, m.s.t) => m.e.t <= m.s.t
        /\ \A m \in lm_probes.user_province :
               /\ lm_cmp_user_province(m.e.t, m.s.t)
                      <=> Visible("user", "province", m.e.t, m.s.t)
               /\ lm_cmp_user_province(m.e.t, m.s.t) => m.e.t <= m.s.t
        /\ \A m \in lm_probes.province_user_pid :
               /\ lm_cmp_province_user_pid(m.e.t, m.s.t)
                      <=> Visible("province", "user", m.e.t, m.s.t)
               /\ lm_cmp_province_user_pid(m.e.t, m.s.t) => m.e.t <= m.s.t
        /\ \A m \in lm_probes.province_user_uid :
               /\ lm_cmp_province_user_uid(m.e.t, m.s.t)
                      <=> Visible("province", "user", m.e.t, m.s.t)
               /\ lm_cmp_province_user_uid(m.e.t, m.s.t) => m.e.t <= m.s.t
        /\ \A m \in lm_probes.province_order :
               /\ lm_cmp_province_order(m.e.t, m.s.t)
                      <=> Visible("province", "order", m.e.t, m.s.t)
               /\ lm_cmp_province_order(m.e.t, m.s.t) => m.e.t <= m.s.t

\* The second step of the user path of the late materialization has met a
\* Province entry earlier than its event and one at its event's time, the
\* first step of the order path a User entry later than its event, and the
\* last step of the province path an Order entry at its event's time.
C11_Witness ==
    /\ \E m \in LateProbes.user_province : m.e.t < m.s.t
    /\ \E m \in LateProbes.user_province : m.e.t = m.s.t
    /\ \E m \in LateProbes.order_user : m.e.t > m.s.t
    /\ \E m \in LateProbes.province_order : m.e.t = m.s.t
    /\ \E m \in Probes.order_user : m.e.t = m.s.t

----------------------------------------------------------------------------
\* The half_join operators of a dataflow: the fields that are stashes.
Steps(d) == DOMAIN d \cap {"o1", "o2", "u1", "u2", "p1", "p2", "p3"}

\* C12: delta_join_late_materialization has the half_joins of delta_join and
\* one more, the second of the three steps of its province path: the first
\* step turns a Province into the uids of the pid-keyed index, the added
\* step resolves each uid to the Users of the uid-keyed index with a
\* comparison that sees ties, the third step adds the Orders.  The order and
\* user paths of the two functions emit the same updates, step by step.
C12_OneExtraHalfJoin ==
    /\ Steps(dj) = {"o1", "o2", "u1", "u2", "p1", "p2"}
    /\ Steps(lm) = Steps(dj) \cup {"p3"}
    /\ \A t \in Times : lm_cmp_province_user_uid(t, t)
    /\ \A x \in lm.province_mid :
           \E e \in lm_user_pid_arrange(user) : e.k = x.v.pid /\ e.v = x.k
    /\ \A y \in lm.province_mid2 :
           /\ \E x \in lm.province_mid : x.v = y.v[2] /\ x.k = y.v[1].uid
           /\ \E e \in lm_user_uid_arrange(user) : e.v = y.v[1]
    /\ \A z \in lm.province_update :
           \E y \in lm.province_mid2 : y.v = <<z.d[2], z.d[3]>>
    /\ lm.order_mid = dj.order_mid
    /\ lm.order_update = dj.order_update
    /\ lm.user_mid = dj.user_mid
    /\ lm.user_update = dj.user_update

\* All three paths of the late materialization have emitted, two Users of
\* one uid being present.
C12_Witness ==
    /\ lm.order_update # {} /\ lm.user_update # {}
    /\ lm.province_update # {}
    /\ \E a, b \in user : a.d # b.d /\ a.d.uid = b.d.uid /\ a.r = 1 /\ b.r = 1

----------------------------------------------------------------------------
\* C13: the output of delta_join (and of delta_join_late_materialization) is
\* the union of its three delta paths: for every tuple and time the output
\* multiplicity is the sum of the multiplicities the order, user and
\* province paths emitted for them; nothing is dropped or deduplicated.
\* (A tuple neither the output nor a path holds has multiplicity 0 in each.)
C13_PassThroughUnion ==
    LET out == delta_join
        late == delta_join_late_materialization
        seen == {x.d : x \in out \cup late}
                  \cup {x.d : x \in dj.order_update \cup dj.user_update
                                      \cup dj.province_update}
                  \cup {x.d : x \in lm.order_update \cup lm.user_update
                                      \cup lm.province_update}
    IN \A d \in seen : \A t \in Times :
           /\ Mult(out, t, d)
                = Emitted(dj.order_update, d, t)
                    + Emitted(dj.user_update, d, t)
                    + Emitted(dj.province_update, d, t)
           /\ Mult(late, t, d)
                = Emitted(lm.order_update, d, t)
                    + Emitted(lm.user_update, d, t)
                    + Emitted(lm.province_update, d, t)

\* Two paths have emitted the same update, a tuple with +1 at one time, and
\* the output holds the tuple with 2 at that time.
C13_Witness ==
    \E d \in Tuples : \E t \in Times :
        /\ Emitted(dj.order_update, d, t) = 1
        /\ Emitted(dj.user_update, d, t) = 1
        /\ Mult(delta_join, t, d) = 2

----------------------------------------------------------------------------
\* What delta_join produces when the collections o, u, p are delivered whole
\* and the inputs are then closed: one round of the dataflow with a frontier
\* beyond every time.
Whole(o, u, p) ==
    LET fed == [Idle EXCEPT !.o1 = order_change(o), !.u1 = user_change(u),
                            !.p1 = province_change(p)]
        d == delta_join_round(fed, o, u, p, Horizon + 2)
    IN collect(d.order_update, d.user_update, d.province_update)

\* The output of the dataflow without the update e of order (of user, of
\* province).
WithoutOrder(e) == Whole(order \ {e}, user, province)
WithoutUser(e) == Whole(order, user \ {e}, province)
WithoutProvince(e) == Whole(order, user, province \ {e})

\* The final times before the time of update e.
FinalBefore(e) == {t2 \in Times : t2 < e.t /\ Done(t2)}

\* C14: a change event at time t does not disturb earlier output: for every
\* final time t2 < t the output up to t2 is the same with and without the
\* event.  In the scenario, Order(101) inserted at 1 adds exactly its tuple
\* at 1 and leaves the output at 0 as it was.
C14_EarlierOutputUndisturbed ==
    /\ LET out == delta_join
       IN /\ \A e \in {x \in order : FinalBefore(x) # {}} :
                 LET without == WithoutOrder(e)
                 IN \A t2 \in FinalBefore(e) :
                        UpTo(out, t2) = UpTo(without, t2)
          /\ \A e \in {x \in user : FinalBefore(x) # {}} :
                 LET without == WithoutUser(e)
                 IN \A t2 \in FinalBefore(e) :
                        UpTo(out, t2) = UpTo(without, t2)
          /\ \A e \in {x \in province : FinalBefore(x) # {}} :
                 LET without == WithoutProvince(e)
                 IN \A t2 \in FinalBefore(e) :
                        UpTo(out, t2) = UpTo(without, t2)
    /\ (feed = "tie" /\ Done(1) /\ UpTo(order, 1) = TieScript.order
           /\ UpTo(user, 1) = UpTo(TieScript.user, 1)
           /\ UpTo(province, 1) = UpTo(TieScript.province, 1))
          => LET u == User(10, 1)
                 p == Province(1, "Beijing")
             IN UpTo(delta_join, 1)
                  = {Update(<<Order(100, 50, 10), u, p>>, 0, 1),
                     Update(<<Order(101, 20, 10), u, p>>, 1, 1)}

\* The output of time 0 is final, and an update of order at time 1 has been
\* delivered and has produced output at time 1.
C14_Witness ==
    /\ Done(1) /\ UpTo(delta_join, 0) # {}
    /\ \E e \in order : e.t = 1
    /\ \E x \in dj.order_update : x.t0 = 1

----------------------------------------------------------------------------
\* The times the half_joins of the two dataflows hold in this state, to
\* which their frontier functions are applied.
HeldTimes ==
    Held(now, dj.o1) \cup Held(now, dj.o2) \cup Held(now, dj.u1)
      \cup Held(now, dj.u2) \cup Held(now, dj.p1) \cup Held(now, dj.p2)
      \cup Held(now, lm.o1) \cup Held(now, lm.o2) \cup Held(now, lm.u1)
      \cup Held(now, lm.u2) \cup Held(now, lm.p1) \cup Held(now, lm.p2)
      \cup Held(now, lm.p3)

\* C15: the frontier function is the saturating immediate predecessor: for
\* t >= 1 it yields t - 1, the greatest time strictly less than t; for t = 0
\* it yields 0, a time and not less than t.  The frontier functions of the
\* two variants are the same function, and each half_join compacts the
\* trace it probes to the predecessor of the least time it holds.
C15_SaturatingPredecessor ==
    /\ \A t \in HeldTimes :
           /\ frontier_func(t) \in Nat
           /\ t >= 1 => /\ frontier_func(t) = t - 1
                         /\ frontier_func(t) < t
                         /\ \A s \in 0..(t - 1) : s <= frontier_func(t)
           /\ t = 0 => frontier_func(t) = 0
           /\ lm_frontier_func(t) = frontier_func(t)
    /\ compaction(now, dj.o1) = frontier_func(Lower(now, dj.o1))
    /\ compaction(now, dj.p1) = frontier_func(Lower(now, dj.p1))
    /\ lm_compaction(now, lm.u1) = frontier_func(Lower(now, lm.u1))
    /\ lm_compaction(now, lm.p1) = frontier_func(Lower(now, lm.p1))

\* With the frontier at 2, one half_join holds a proposal of time 0 and
\* compacts to 0, the saturated case, and another holds nothing and compacts
\* to 1.
C15_Witness ==
    /\ now = 2
    /\ \E s \in dj.o1 : s.t = 0
    /\ compaction(now, dj.o1) = 0
    /\ dj.u1 = {}
    /\ compaction(now, dj.u1) = 1

----------------------------------------------------------------------------
\* Some record has a negative multiplicity as of some time up to t: it was
\* deleted without having been inserted.
Invalid(t) ==
    \E t2 \in 0..t :
        \/ \E x \in order : Acc(order, t2, x.d) < 0
        \/ \E x \in user : Acc(user, t2, x.d) < 0
        \/ \E x \in province : Acc(province, t2, x.d) < 0

\* The multiplicity of tuple d in the join of the relations as of t.
Product(d, t) ==
    IF Connected(d)
    THEN Acc(order, t, d[1]) * Acc(user, t, d[2]) * Acc(province, t, d[3])
    ELSE 0

\* C16: a delete of a record that was never inserted is processed like any
\* other update: as of every final time the output of delta_join for a tuple
\* adds up to the product of the multiplicities of its records, negative
\* where one of them is negative, which is also what regular_join holds.
C16_InvalidMultiplicitiesPassThrough ==
    \A t \in Times : (Done(t) /\ Invalid(t)) =>
        LET out == delta_join
            base == Baseline(t)
        IN \A d \in Tuples :
               /\ Acc(out, t, d) = Product(d, t)
               /\ Acc(base, t, d) = Product(d, t)
               /\ Product(d, t) < 0 => Acc(out, t, d) < 0

\* A Province that was never inserted is deleted at 0, and the tuple of it
\* has multiplicity -1 in the final output of time 1.
C16_Witness ==
    \E d \in Tuples :
        /\ Done(1)
        /\ Of(province, d[3]) = {Update(d[3], 0, -1)}
        /\ Acc(delta_join, 1, d) = -1

----------------------------------------------------------------------------
\* uid is a primary key of User at every time of the input.
PrimaryKeyAlways == \A t \in Times : PrimaryKeyAt(t)

\* C17: when at every time each uid has at most one User record, of
\* multiplicity 0 or 1, the output of delta_join_late_materialization has
\* for every tuple and final time the multiplicity the output of delta_join
\* has, and so has what its province path emits.
C17_LateMaterializationOnPrimaryKey ==
    PrimaryKeyAlways =>
        \A t \in Times : Done(t) =>
            \A d \in Tuples :
                /\ Mult(delta_join_late_materialization, t, d)
                     = Mult(delta_join, t, d)
                /\ Emitted(lm.province_update, d, t)
                     = Emitted(dj.province_update, d, t)

\* The user has changed pid at the time the new province was inserted, and
\* the province path of the late materialization has emitted the tuples of
\* the new province at that time.
C17_Witness ==
    /\ TieDelivered /\ PrimaryKeyAlways
    /\ \E x \in lm.province_update :
           x.t0 = 2 /\ x.d[2] = User(10, 2) /\ x.r = 1
    /\ \E x \in lm.province_mid : x.t0 = 2 /\ x.k = 10

----------------------------------------------------------------------------
\* The delta paths scheduled one at a time

\* One scheduling round of the half_joins of one path of delta_join only:
\* the other operators keep what they hold.
order_path_round(d, o, u, p, f) ==
    LET r == delta_join_round(d, o, u, p, f)
    IN [d EXCEPT !.o1 = r.o1, !.o2 = r.o2, !.order_mid = r.order_mid,
                 !.order_update = r.order_update]

user_path_round(d, o, u, p, f) ==
    LET r == delta_join_round(d, o, u, p, f)
    IN [d EXCEPT !.u1 = r.u1, !.u2 = r.u2, !.user_mid = r.user_mid,
                 !.user_update = r.user_update]

province_path_round(d, o, u, p, f) ==
    LET r == delta_join_round(d, o, u, p, f)
    IN [d EXCEPT !.p1 = r.p1, !.p2 = r.p2, !.province_mid = r.province_mid,
                 !.province_update = r.province_update]

StepOrder ==
    /\ Waiting(dj.o1)
    /\ dj' = order_path_round(dj, order, user, province, now)
    /\ UNCHANGED <<order, user, province, now, feed, budget, lm>>

StepUser ==
    /\ Waiting(dj.u1)
    /\ dj' = user_path_round(dj, order, user, province, now)
    /\ UNCHANGED <<order, user, province, now, feed, budget, lm>>

StepProvince ==
    /\ Waiting(dj.p1)
    /\ dj' = province_path_round(dj, order, user, province, now)
    /\ UNCHANGED <<order, user, province, now, feed, budget, lm>>

\* delta_join with its three paths scheduled independently of each other.
NextPaths ==
    \/ \E e \in script.order : SendOrder(e)
    \/ \E e \in script.user : SendUser(e)
    \/ \E e \in script.province : SendProvince(e)
    \/ AdvanceTo
    \/ StepOrder
    \/ StepUser
    \/ StepProvince

SpecPaths == Init /\ [][NextPaths]_vars

\* Every half_join of delta_join has served its proposals up to the closed
\* time t.
DoneDelta(t) ==
    /\ t < now
    /\ Drained(dj.o1, t) /\ Drained(dj.o2, t) /\ Drained(dj.u1, t)
    /\ Drained(dj.u2, t) /\ Drained(dj.p1, t) /\ Drained(dj.p2, t)

\* C18: the output of delta_join up to a final time t is a function of the
\* set of change events alone: whatever the order in which the events were
\* delivered and the paths were scheduled, it is the output of the run that
\* delivers all events first and processes them afterwards, in which every
\* proposal reads an index that holds every entry.
C18_ArrivalOrderIrrelevant ==
    \A t \in Times : DoneDelta(t) =>
        UpTo(delta_join, t) = UpTo(Whole(order, user, province), t)

\* The output of time 0 is final, and the user path has emitted an update
\* of a later time while the order path still holds a proposal of an earlier
\* time that the frontier has passed.
C18_Witness ==
    /\ DoneDelta(0) /\ UpTo(delta_join, 0) # {}
    /\ \E s \in dj.o1 :
           /\ s.t < now
           /\ \E x \in dj.user_update : x.t0 > s.t
----------------------------------------------------------------------------
\* C19: for every input and every time t, every tuple has the same
\* accumulated multiplicity in regular_join and in regular_join_core, which
\* joins arranged inputs through the arranged intermediate Order-User join.
C19_BaselinesAgree ==
    LET plain == regular_join(order, user, province)
        core == regular_join_core(order, user, province)
    IN \A t \in Times :
           \A d \in Tuples \cup {x.d : x \in plain \cup core} :
               Acc(plain, t, d) = Acc(core, t, d)

\* regular_join_core holds a tuple it emitted at one time and retracted at a
\* later one, the intermediate arrangement holding the tuple's (Order, User)
\* pair under the user's pid.
C19_Witness ==
    LET core == regular_join_core(order, user, province)
    IN \E x \in core : \E y \in core :
           /\ x.d = y.d /\ x.r > 0 /\ y.r < 0 /\ x.t < y.t
           /\ x.d[2].uid # x.d[2].pid
           /\ \E e \in intermediate(order, user) :
                  e.k = x.d[2].pid /\ e.v = <<x.d[1], x.d[2]>>
====
